---------------------------- MODULE Spec2Model ----------------------------
(***************************************************************************)
(* A model of src/src/data/crawler.py: the resilient request client        *)
(* (safe_get), the catalog page walker (fetch_movie_ids_by_year), the item *)
(* detail fetcher (fetch_movie_details), the checkpoint sink (save_to_csv) *)
(* and the per-year orchestration loop (main).                             *)
(*                                                                         *)
(* Time is counted in tenths of the unit of time.sleep: sleep(1) is 10,    *)
(* sleep(0.2) is 2, sleep(retry_after + 0.5) is retry_after * 10 + 5.      *)
(***************************************************************************)
EXTENDS Integers, Sequences, FiniteSets, TLC

VARIABLES sg, wk, csv, mn, fd, cfg

vars == <<sg, wk, csv, mn, fd, cfg>>

(***************************************************************************)
(* Bounds of the model and constants of the program.                       *)
(***************************************************************************)

\* safe_get(url, params=None, max_retries=5)
max_retries == 5

\* The largest numeric Retry-After value a simulated server sends.
MaxRetryAfter == 3

\* PAGES_PER_YEAR = 25 in the program; the model walks fewer pages.
PAGES_PER_YEAR == 3

\* The catalog's page size (20 at the real catalog): the most ids on a page.
MaxPageSize == 2

\* The most records in one batch, and the most calls, of the checkpoint sink
\* taken alone.
MaxBatch == 2

MaxCalls == 3

\* START_YEAR = 2000 and END_YEAR = 2024 in the program; the model runs
\* NumYears years from START_YEAR.
START_YEAR == 2000

NumYears == 2

END_YEAR == START_YEAR + NumYears - 1

\* MAX_WORKERS = 10 in the program; the model's pool is narrower.
MAX_WORKERS == 2

\* The most candidate ids the simulated catalog has for one year, and the
\* most detail fetches of one run.
MaxCandidates == 3

MaxFetches == 4

(***************************************************************************)
(* HTTP responses as requests.get delivers them.                           *)
(*   exc         requests.get raised a RequestException (timeout,          *)
(*               connection error) instead of returning a response         *)
(*   status      response.status_code                                      *)
(*   retry_after the Retry-After header: absent, an integer literal, or    *)
(*               text that is no integer literal (an HTTP-date)            *)
(*   json_ok     whether the content parses as JSON                        *)
(*   body        the parsed content                                        *)
(***************************************************************************)
NoHeader == [present |-> FALSE, numeric |-> FALSE, val |-> 0]

NumHeader(n) == [present |-> TRUE, numeric |-> TRUE, val |-> n]

TextHeader == [present |-> TRUE, numeric |-> FALSE, val |-> 0]

Headers == {NoHeader, TextHeader} \cup {NumHeader(n) : n \in 0..MaxRetryAfter}

NoBody == [empty |-> TRUE]

NetErr == [exc |-> TRUE, status |-> 0, retry_after |-> NoHeader,
           json_ok |-> FALSE, body |-> NoBody]

Ok(b) == [exc |-> FALSE, status |-> 200, retry_after |-> NoHeader,
          json_ok |-> TRUE, body |-> b]

BadJson == [exc |-> FALSE, status |-> 200, retry_after |-> NoHeader,
            json_ok |-> FALSE, body |-> NoBody]

RateLimited(h) == [exc |-> FALSE, status |-> 429, retry_after |-> h,
                   json_ok |-> FALSE, body |-> NoBody]

HttpError(s) == [exc |-> FALSE, status |-> s, retry_after |-> NoHeader,
                 json_ok |-> FALSE, body |-> NoBody]

ErrorStatuses == {404, 503}

(***************************************************************************)
(* safe_get.  A frame of safe_get holds the loop index, how the call       *)
(* ended, the returned value and, as history, the responses received and   *)
(* the requests and sleeps performed.                                      *)
(***************************************************************************)
None == [kind |-> "None", body |-> NoBody]

Json(b) == [kind |-> "json", body |-> b]

Raised == [kind |-> "raise", body |-> NoBody]

Request == [ev |-> "request", t |-> 0]

Sleep(t) == [ev |-> "sleep", t |-> t]

safe_get_enter(caught) ==
    [attempt |-> 0, status |-> "running", result |-> None,
     resps |-> <<>>, log |-> <<>>, caught |-> caught]

\* int(response.headers.get("Retry-After", 1)): the default when the header is
\* absent, the value of an integer literal, ValueError (-1 here) otherwise.
int_retry_after(h) ==
    IF ~h.present THEN 1
    ELSE IF h.numeric THEN h.val
    ELSE -1

\* "except requests.exceptions.RequestException": log, time.sleep(1), and the
\* for loop takes the next attempt.
on_request_exception(sent) ==
    [sent EXCEPT !.log = Append(@, Sleep(10)), !.attempt = @ + 1]

\* An exception that is no RequestException leaves safe_get.
propagate(sent) ==
    [sent EXCEPT !.status = "raised", !.result = Raised]

\* "if response.status_code == 200: return response.json()".  The frame's
\* caught field: whether the installed requests library raises its JSON
\* decoding error as a RequestException (requests >= 2.27) or as a plain
\* ValueError.
on_ok(sent, resp) ==
    IF resp.json_ok
    THEN [sent EXCEPT !.status = "returned", !.result = Json(resp.body)]
    ELSE IF sent.caught THEN on_request_exception(sent)
    ELSE propagate(sent)

\* on_rate_limited sleeping the server's duration without the half unit added.
on_rate_limited_no_margin(sent, resp) ==
    LET retry_after == int_retry_after(resp.retry_after)
    IN  IF retry_after < 0 THEN propagate(sent)
        ELSE [sent EXCEPT !.log = Append(@, Sleep(retry_after * 10)),
                          !.attempt = @ + 1]

\* on_rate_limited giving up on the first 429.
on_rate_limited_no_retry(sent, resp) ==
    [sent EXCEPT !.status = "returned", !.result = None]

\* "elif response.status_code == 429": time.sleep(retry_after + 0.5); continue
on_rate_limited(sent, resp) ==
    LET retry_after == int_retry_after(resp.retry_after)
    IN  IF retry_after < 0 THEN propagate(sent)
        ELSE [sent EXCEPT !.log = Append(@, Sleep(retry_after * 10 + 5)),
                          !.attempt = @ + 1]

\* on_http_error treating the status as transient: sleep and try again.
on_http_error_retried(sent) == on_request_exception(sent)

\* "else: ... return None"
on_http_error(sent) ==
    [sent EXCEPT !.status = "returned", !.result = None]

\* One iteration of "for attempt in range(max_retries)".
safe_get_attempt(st, resp) ==
    LET sent == [st EXCEPT !.resps = Append(@, resp),
                           !.log = Append(@, Request)]
    IN  IF resp.exc THEN on_request_exception(sent)
        ELSE IF resp.status = 200 THEN on_ok(sent, resp)
        ELSE IF resp.status = 429 THEN on_rate_limited(sent, resp)
        ELSE on_http_error(sent)

\* safe_get_exhausted with a loop that runs once too often.
safe_get_exhausted_off_by_one(st) ==
    IF st.status = "running" /\ st.attempt > max_retries
    THEN [st EXCEPT !.status = "returned", !.result = None]
    ELSE st

\* The end of the for loop: "return None" once range(max_retries) is used up.
safe_get_exhausted(st) ==
    IF st.status = "running" /\ st.attempt >= max_retries
    THEN [st EXCEPT !.status = "returned", !.result = None]
    ELSE st

safe_get_step(st, resp) == safe_get_exhausted(safe_get_attempt(st, resp))

\* A whole call of safe_get against a server that answers script[1],
\* script[2], ...; a script is as long as the call needs.
RECURSIVE safe_get_run(_, _)
safe_get_run(st, script) ==
    IF st.status # "running" \/ script = <<>> THEN st
    ELSE safe_get_run(safe_get_step(st, Head(script)), Tail(script))

safe_get(script, caught) == safe_get_run(safe_get_enter(caught), script)

(***************************************************************************)
(* The responses of the simulated server of the request client.            *)
(***************************************************************************)
GetBodies == {[empty |-> FALSE, results |-> <<>>],
              [empty |-> FALSE, results |-> <<1>>]}

Resp == {NetErr, BadJson}
        \cup {Ok(b) : b \in GetBodies}
        \cup {RateLimited(h) : h \in Headers}
        \cup {HttpError(s) : s \in ErrorStatuses}

IdleGet == [attempt |-> 0, status |-> "idle", result |-> None,
            resps |-> <<>>, log |-> <<>>, caught |-> TRUE]

IdleWalk == [status |-> "idle"]

IdleCsv == [file |-> [exists |-> FALSE, rows |-> <<>>], fresh |-> FALSE,
            calls |-> <<>>]

IdleMain == [pc |-> "idle", year |-> 0, movie_ids |-> <<>>, next |-> 0,
             futures |-> <<>>, year_data |-> <<>>, total_collected |-> 0,
             fetches |-> 0, before |-> IdleCsv.file, last |-> "none"]

IdleDetail == [pc |-> "idle"]

\* API_KEY = os.getenv("TMDB_API_KEY", "YOUR_API_KEY_HERE"): the configuration
\* of a process in whose environment the variable is set (env_set) or not.
Config(env_set) ==
    [env_set |-> env_set,
     API_KEY |-> IF env_set THEN "key" ELSE "YOUR_API_KEY_HERE"]

(***************************************************************************)
(* SpecGet: one call of safe_get, attempt by attempt, against every        *)
(* sequence of responses.                                                  *)
(***************************************************************************)
InitGet ==
    /\ sg \in {safe_get_enter(c) : c \in BOOLEAN}
    /\ wk = IdleWalk
    /\ csv = IdleCsv
    /\ mn = IdleMain
    /\ fd = IdleDetail
    /\ cfg = Config(TRUE)

SafeGetAttempt ==
    /\ sg.status = "running"
    /\ \E resp \in Resp : sg' = safe_get_step(sg, resp)
    /\ UNCHANGED <<wk, csv, mn, fd, cfg>>

NextGet == SafeGetAttempt

SpecGet == InitGet /\ [][NextGet]_vars

(***************************************************************************)
(* Properties of safe_get, checked under SpecGet.                          *)
(***************************************************************************)
Requests(log) == {i \in 1..Len(log) : log[i].ev = "request"}

Sleeps(log) == {i \in 1..Len(log) : log[i].ev = "sleep"}

AllNetworkFailures(st) == \A i \in 1..Len(st.resps) : st.resps[i].exc

\* n failed attempts: request, sleep(1), request, sleep(1), ...
FailureLog(n) == [i \in 1..(2 * n) |-> IF i % 2 = 1 THEN Request ELSE Sleep(10)]

\* C1: while every attempt of safe_get ends in a network failure, each of its
\* requests is followed by a sleep of 1 unit, the call is over exactly when 5
\* requests were issued (never a 6th), and it then returns None.
C1_RetryBound ==
    AllNetworkFailures(sg) =>
        /\ Len(sg.resps) <= max_retries
        /\ sg.log = FailureLog(Len(sg.resps))
        /\ (sg.status # "running") <=> (Len(sg.resps) = max_retries)
        /\ sg.status # "running" => sg.status = "returned" /\ sg.result = None

C1_Witness ==
    /\ AllNetworkFailures(sg)
    /\ sg.status = "returned"
    /\ Cardinality(Requests(sg.log)) = 5
    /\ Cardinality(Sleeps(sg.log)) = 5

\* The sleep the claim expects after a 429: Retry-After + 0.5 units, 1 + 0.5
\* when the header is absent.
ExpectedWait(h) == IF h.present THEN h.val * 10 + 5 ELSE 15

\* C2: when the server answers 429 once (Retry-After an integer or absent) and
\* then 200, safe_get has slept exactly once, for Retry-After + 0.5 units,
\* issued the request twice and returned the body of the 200 response.
C2_RateLimitCompliance ==
    \A h \in Headers \ {TextHeader}, b \in GetBodies :
        sg.resps = <<RateLimited(h), Ok(b)>> =>
            /\ sg.status = "returned"
            /\ sg.result = Json(b)
            /\ sg.log = <<Request, Sleep(ExpectedWait(h)), Request>>

C2_Witness ==
    /\ Len(sg.resps) = 2
    /\ sg.resps[1] = RateLimited(NumHeader(3))
    /\ sg.resps[2].status = 200 /\ sg.resps[2].json_ok
    /\ sg.status = "returned"
    /\ sg.log = <<Request, Sleep(35), Request>>

No200(st) == \A i \in 1..Len(st.resps) : st.resps[i].status # 200

\* C3: for every sequence of responses safe_get issues at most max_retries
\* requests, is over once it has issued max_retries, and returns None when
\* none of the responses was a 200.
C3_AttemptCeiling ==
    /\ Cardinality(Requests(sg.log)) <= max_retries
    /\ Cardinality(Requests(sg.log)) = max_retries => sg.status # "running"
    /\ (sg.status # "running" /\ No200(sg)) =>
           sg.status = "returned" /\ sg.result = None

NonTransient(resp) == ~resp.exc /\ resp.status \notin {200, 429}

\* C4: a response whose status is neither 200 nor 429 is the last one of the
\* call: safe_get returned None on it, with no sleep and no request after the
\* request that it answers.
C4_NoRetryOnHttpError ==
    \A i \in 1..Len(sg.resps) :
        NonTransient(sg.resps[i]) =>
            /\ i = Len(sg.resps)
            /\ sg.status = "returned" /\ sg.result = None
            /\ sg.log[Len(sg.log)] = Request
            /\ Cardinality(Requests(sg.log)) = i

C4_Witness ==
    /\ Len(sg.resps) \in 2..(max_retries - 1)
    /\ NonTransient(sg.resps[Len(sg.resps)])
    /\ sg.status = "returned"

(***************************************************************************)
(* fetch_movie_ids_by_year.  A frame of the walker holds the page the loop *)
(* is at, the ids collected, the number of sleep(0.2) calls and, as        *)
(* history, each page requested with what safe_get gave for it.            *)
(*                                                                         *)
(* A parsed discovery body: empty (a dict without keys), has_results       *)
(* (the key "results" is there) and results (the ids of its items).        *)
(***************************************************************************)
EmptyDict == [empty |-> TRUE, has_results |-> FALSE, results |-> <<>>]

NoResultsKey == [empty |-> FALSE, has_results |-> FALSE, results |-> <<>>]

Results(ids) == [empty |-> FALSE, has_results |-> TRUE, results |-> ids]

walk_enter == [status |-> "running", page |-> 1, movie_ids |-> <<>>,
               delays |-> 0, pages |-> <<>>]

\* "if not data or "results" not in data"
no_data(data) ==
    data.kind = "None" \/ data.body.empty \/ ~data.body.has_results

\* walk_page dropping the ids collected so far when a page gives no data.
walk_page_discarding(st, data) ==
    LET asked == [st EXCEPT !.pages = Append(@, [page |-> st.page,
                                                  data |-> data])]
    IN  IF data.kind = "raise" THEN [asked EXCEPT !.status = "raised"]
        ELSE IF no_data(data)
        THEN [asked EXCEPT !.status = "returned", !.movie_ids = <<>>]
        ELSE [asked EXCEPT
                !.movie_ids = @ \o data.body.results,
                !.delays = @ + 1,
                !.page = @ + 1,
                !.status = IF st.page + 1 > PAGES_PER_YEAR
                           THEN "returned" ELSE "running"]

\* One iteration of "for page in range(1, PAGES_PER_YEAR + 1)", data being
\* what safe_get(base_url, params) gave: an exception leaves the walker, no
\* data breaks the loop, and the ids of a page are appended in its order.
walk_page(st, data) ==
    LET asked == [st EXCEPT !.pages = Append(@, [page |-> st.page,
                                                  data |-> data])]
    IN  IF data.kind = "raise" THEN [asked EXCEPT !.status = "raised"]
        ELSE IF no_data(data) THEN [asked EXCEPT !.status = "returned"]
        ELSE [asked EXCEPT
                !.movie_ids = @ \o data.body.results,
                !.delays = @ + 1,
                !.page = @ + 1,
                !.status = IF st.page + 1 > PAGES_PER_YEAR
                           THEN "returned" ELSE "running"]

\* A whole call of the walker, datas[p] being what safe_get gives for page p.
RECURSIVE walk_run(_, _)
walk_run(st, datas) ==
    IF st.status # "running" \/ datas = <<>> THEN st
    ELSE walk_run(walk_page(st, Head(datas)), Tail(datas))

fetch_movie_ids_by_year(datas) == walk_run(walk_enter, datas)

(***************************************************************************)
(* The simulated catalog of the walker: page p holds up to MaxPageSize     *)
(* ids, and the request for it goes through safe_get.                      *)
(***************************************************************************)
PageIds(p, n) == [i \in 1..n |-> (p - 1) * MaxPageSize + i]

PageBodies(p) == {EmptyDict, NoResultsKey}
                 \cup {Results(PageIds(p, n)) : n \in 0..MaxPageSize}

AllFail == [i \in 1..max_retries |-> NetErr]

PageScripts(p) ==
    {<<Ok(b)>> : b \in PageBodies(p)}
    \cup {<<RateLimited(NoHeader), Ok(b)>> : b \in PageBodies(p)}
    \cup {<<NetErr, Ok(b)>> : b \in PageBodies(p)}
    \cup {<<HttpError(s)>> : s \in ErrorStatuses}
    \cup {AllFail, <<RateLimited(TextHeader)>>, <<BadJson>>}

(***************************************************************************)
(* SpecWalk: one call of fetch_movie_ids_by_year, page by page.            *)
(***************************************************************************)
InitWalk ==
    /\ sg = IdleGet
    /\ wk = walk_enter
    /\ csv = IdleCsv
    /\ mn = IdleMain
    /\ fd = IdleDetail
    /\ cfg = Config(TRUE)

WalkPage ==
    /\ wk.status = "running"
    /\ \E script \in PageScripts(wk.page), caught \in BOOLEAN :
           /\ sg' = safe_get(script, caught)
           /\ wk' = walk_page(wk, sg'.result)
    /\ UNCHANGED <<csv, mn, fd, cfg>>

NextWalk == WalkPage

SpecWalk == InitWalk /\ [][NextWalk]_vars

(***************************************************************************)
(* Properties of the walker, checked under SpecWalk.                       *)
(***************************************************************************)
\* A page that came back with at least one id.
HasIds(data) == ~no_data(data) /\ data.body.results # <<>>

\* C5: the walker requests no page after the first page that returns no
\* results or whose request fails; with n ids on page 1 and a successful page
\* 2 with 0 ids it has collected the n ids and requested two pages.
C5_StopsAtFirstEmptyPage ==
    /\ \A k \in 1..(Len(wk.pages) - 1) : HasIds(wk.pages[k].data)
    /\ (/\ Len(wk.pages) >= 2
        /\ HasIds(wk.pages[1].data)
        /\ wk.pages[2].data = Json(Results(<<>>)))
       => /\ wk.status = "returned"
          /\ Len(wk.pages) = 2
          /\ wk.movie_ids = wk.pages[1].data.body.results

(***************************************************************************)
(* save_to_csv.  A file is absent or holds rows: a header row (the field   *)
(* names) or a data row (the record written).                              *)
(***************************************************************************)
Absent == [exists |-> FALSE, rows |-> <<>>]

HeaderRow(keys) == [kind |-> "header", keys |-> keys, rec |-> <<>>]

DataRow(rec) == [kind |-> "data", keys |-> {}, rec |-> rec]

\* save_to_csv writing the header on every call.
save_to_csv_always_header(data_list, file, mode) ==
    IF data_list = <<>> THEN file
    ELSE LET keys == DOMAIN data_list[1]
             kept == IF mode = "w" THEN <<>> ELSE file.rows
         IN  [exists |-> TRUE,
              rows |-> (kept \o <<HeaderRow(keys)>>)
                       \o [i \in 1..Len(data_list) |-> DataRow(data_list[i])]]

\* save_to_csv opening the destination before it looks at the batch.
save_to_csv_touch_on_empty(data_list, file, mode) ==
    LET file_exists == file.exists
        kept == IF mode = "w" THEN <<>> ELSE file.rows
        header == IF data_list # <<>> /\ (~file_exists \/ mode = "w")
                  THEN <<HeaderRow(DOMAIN data_list[1])>> ELSE <<>>
    IN  [exists |-> TRUE,
         rows |-> (kept \o header)
                  \o [i \in 1..Len(data_list) |-> DataRow(data_list[i])]]

\* save_to_csv opening the destination for writing whatever the mode.
save_to_csv_rewriting(data_list, file, mode) ==
    IF data_list = <<>> THEN file
    ELSE [exists |-> TRUE,
          rows |-> <<HeaderRow(DOMAIN data_list[1])>>
                   \o [i \in 1..Len(data_list) |-> DataRow(data_list[i])]]

\* save_to_csv(data_list, filename, mode): the file after the call.
\*   "if not data_list: return"
\*   file_exists = os.path.isfile(filename); keys = data_list[0].keys()
\*   open(filename, mode): "a" keeps the rows (creating the file), "w" drops them
\*   "if not file_exists or mode == 'w': writer.writeheader()"
\*   writer.writerows(data_list)
save_to_csv(data_list, file, mode) ==
    IF data_list = <<>> THEN file
    ELSE LET file_exists == file.exists
             keys == DOMAIN data_list[1]
             kept == IF mode = "w" THEN <<>> ELSE file.rows
             header == IF ~file_exists \/ mode = "w"
                       THEN <<HeaderRow(keys)>> ELSE <<>>
         IN  [exists |-> TRUE,
              rows |-> (kept \o header)
                       \o [i \in 1..Len(data_list) |-> DataRow(data_list[i])]]

(***************************************************************************)
(* SpecCsv: a sequence of save_to_csv calls on one destination, which is   *)
(* absent, empty or left over from an earlier run when the calls begin.    *)
(***************************************************************************)
CsvRecord(n) == [id |-> n, revenue |-> 5]

Batch(n) == [i \in 1..n |-> CsvRecord(i)]

StaleFile == [exists |-> TRUE,
              rows |-> <<HeaderRow({"id", "revenue"}), DataRow(CsvRecord(1))>>]

EmptyFile == [exists |-> TRUE, rows |-> <<>>]

InitCsv ==
    /\ sg = IdleGet
    /\ wk = IdleWalk
    /\ \E f \in {Absent, EmptyFile, StaleFile} :
           csv = [file |-> f, fresh |-> ~f.exists, calls |-> <<>>]
    /\ mn = IdleMain
    /\ fd = IdleDetail
    /\ cfg = Config(TRUE)

SaveCall ==
    /\ Len(csv.calls) < MaxCalls
    /\ \E n \in 0..MaxBatch, mode \in {"a", "w"} :
           csv' = [csv EXCEPT
                     !.file = save_to_csv(Batch(n), csv.file, mode),
                     !.calls = Append(@, [mode |-> mode, n |-> n])]
    /\ UNCHANGED <<sg, wk, mn, fd, cfg>>

NextCsv == SaveCall

SpecCsv == InitCsv /\ [][NextCsv]_vars

(***************************************************************************)
(* Properties of the checkpoint sink, checked under SpecCsv.               *)
(***************************************************************************)
HeaderRows(file) == {i \in 1..Len(file.rows) : file.rows[i].kind = "header"}

DataRows(file) == {i \in 1..Len(file.rows) : file.rows[i].kind = "data"}

RECURSIVE SumOfBatches(_)
SumOfBatches(calls) ==
    IF calls = <<>> THEN 0 ELSE Head(calls).n + SumOfBatches(Tail(calls))

AppendsOfNonEmpty(calls) ==
    /\ calls # <<>>
    /\ \A i \in 1..Len(calls) : calls[i].mode = "a" /\ calls[i].n > 0

\* C8: after any number of append-mode calls with non-empty batches on a
\* destination that did not exist before the first of them, the file holds
\* exactly one header row, which is its first row, and as many data rows as
\* the batches held records.
C8_HeaderOnce ==
    (csv.fresh /\ AppendsOfNonEmpty(csv.calls)) =>
        /\ csv.file.exists
        /\ HeaderRows(csv.file) = {1}
        /\ Cardinality(DataRows(csv.file)) = SumOfBatches(csv.calls)

C8_Witness ==
    /\ csv.fresh /\ AppendsOfNonEmpty(csv.calls)
    /\ Len(csv.calls) >= 3
    /\ Cardinality(DataRows(csv.file)) >= 4

(***************************************************************************)
(* extract_poster_features.  img is what the image host gives: exc (the    *)
(* download raised), status, decodes (PIL opens the content) and the       *)
(* measured means, brightness and saturation in thousandths, the dominant  *)
(* colour's channels in tenths.                                            *)
(***************************************************************************)
NaN == [nan |-> TRUE, val |-> 0]

Num(v) == [nan |-> FALSE, val |-> v]

NoFeatures == [found |-> FALSE,
               poster_brightness |-> NaN, poster_saturation |-> NaN,
               poster_dom_r |-> NaN, poster_dom_g |-> NaN,
               poster_dom_b |-> NaN]

\* round(x, 2) of x thousandths, in hundredths; int(x) of x tenths.
round2(x) == (x + 5) \div 10

int_of(x) == x \div 10

extract_poster_features(img) ==
    IF img.exc \/ img.status # 200 \/ ~img.decodes THEN NoFeatures
    ELSE [found |-> TRUE,
          poster_brightness |-> Num(round2(img.brightness)),
          poster_saturation |-> Num(round2(img.saturation)),
          poster_dom_r |-> Num(int_of(img.r)),
          poster_dom_g |-> Num(int_of(img.g)),
          poster_dom_b |-> Num(int_of(img.b))]

NoImage == [exc |-> TRUE, status |-> 0, decodes |-> FALSE, brightness |-> 0,
            saturation |-> 0, r |-> 0, g |-> 0, b |-> 0]

(***************************************************************************)
(* fetch_movie_details.  A parsed detail body: empty (a dict without       *)
(* keys), id, revenue (the key may be missing, its value null),            *)
(* poster_path (whether there is one) and malformed (a crew or cast member *)
(* without the key the projection reads, the KeyError of                   *)
(* m["job"] / m["name"]).  The outcome of a call: a record, None or an     *)
(* exception.                                                              *)
(***************************************************************************)
Missing == [present |-> FALSE, null |-> FALSE, val |-> 0]

Null == [present |-> TRUE, null |-> TRUE, val |-> 0]

Amount(v) == [present |-> TRUE, null |-> FALSE, val |-> v]

Detail(id, revenue, poster_path, malformed) ==
    [empty |-> FALSE, id |-> id, revenue |-> revenue,
     poster_path |-> poster_path, malformed |-> malformed]

NoRecord == [id |-> 0]

Returned(rec) == [kind |-> "record", record |-> rec]

ReturnedNone == [kind |-> "None", record |-> NoRecord]

Raises == [kind |-> "raise", record |-> NoRecord]

NoOutcome == [kind |-> "none", record |-> NoRecord]

\* data.get("revenue", 0)
get_revenue(body) ==
    IF body.revenue.present THEN [null |-> body.revenue.null,
                                   val |-> body.revenue.val]
    ELSE [null |-> FALSE, val |-> 0]

\* fetch_movie_details with 0 where the poster fields have no value.
fetch_movie_details_zero_default(data, img) ==
    IF data.kind = "raise" THEN Raises
    ELSE IF data.kind = "None" \/ data.body.empty THEN ReturnedNone
    ELSE IF data.body.malformed THEN Raises
    ELSE LET extracted == IF data.body.poster_path
                          THEN extract_poster_features(img)
                          ELSE NoFeatures
             v(x) == IF extracted.found THEN x ELSE Num(0)
         IN  Returned([id |-> data.body.id,
                       revenue |-> get_revenue(data.body),
                       poster_brightness |-> v(extracted.poster_brightness),
                       poster_saturation |-> v(extracted.poster_saturation),
                       poster_dom_r |-> v(extracted.poster_dom_r),
                       poster_dom_g |-> v(extracted.poster_dom_g),
                       poster_dom_b |-> v(extracted.poster_dom_b)])

\* fetch_movie_details(movie_id), data being what safe_get(url, params) gave
\* and img what the image host gives for the poster.
fetch_movie_details(data, img) ==
    IF data.kind = "raise" THEN Raises
    ELSE IF data.kind = "None" \/ data.body.empty THEN ReturnedNone
    ELSE IF data.body.malformed THEN Raises
    ELSE LET extracted == IF data.body.poster_path
                          THEN extract_poster_features(img)
                          ELSE NoFeatures
             poster_features == IF extracted.found THEN extracted
                                ELSE NoFeatures
         IN  Returned([id |-> data.body.id,
                       revenue |-> get_revenue(data.body),
                       poster_brightness |-> poster_features.poster_brightness,
                       poster_saturation |-> poster_features.poster_saturation,
                       poster_dom_r |-> poster_features.poster_dom_r,
                       poster_dom_g |-> poster_features.poster_dom_g,
                       poster_dom_b |-> poster_features.poster_dom_b])

(***************************************************************************)
(* main.  The frame of main: pc (where the orchestrating thread is), the   *)
(* year of the loop, the ids of the year, the futures of the pool in       *)
(* submission order (state pending, running or done; the outcome of its    *)
(* fetch_movie_details; whether as_completed has handed it out), year_data *)
(* and total_collected.  fetches counts the detail fetches of the run,     *)
(* before is the file as the year's discovery found it, last how the last  *)
(* finished year ended.                                                    *)
(***************************************************************************)
main_enter == [pc |-> "start", year |-> START_YEAR, movie_ids |-> <<>>,
               next |-> 0, futures |-> <<>>, year_data |-> <<>>,
               total_collected |-> 0, fetches |-> 0, before |-> Absent,
               last |-> "none"]

Running(m) == {i \in 1..Len(m.futures) : m.futures[i].state = "running"}

Pending(m) == {i \in 1..Len(m.futures) : m.futures[i].state = "pending"}

Busy(m) == Running(m) \cup Pending(m)

Uncollected(m) == {i \in 1..Len(m.futures) : ~m.futures[i].collected}

\* next_year taking the same year again.
next_year_repeated(m, how) ==
    [m EXCEPT !.last = how,
              !.pc = IF m.year + 1 > END_YEAR THEN "finish" ELSE "discover"]

\* The end of one iteration of "for year in range(START_YEAR, END_YEAR + 1)":
\* the next year, or the completion summary after the last.
next_year(m, how) ==
    [m EXCEPT !.year = @ + 1,
              !.last = how,
              !.pc = IF m.year + 1 > END_YEAR THEN "finish" ELSE "discover"]

\* "movie_ids = fetch_movie_ids_by_year(year)": an exception of the walker
\* leaves main; "if not movie_ids: continue"; else "year_data = []" and the
\* pool is entered.
after_discovery(m, walk, file) ==
    IF walk.status = "raised" THEN [m EXCEPT !.pc = "crashed"]
    ELSE IF walk.movie_ids = <<>>
    THEN next_year([m EXCEPT !.movie_ids = <<>>, !.before = file], "no_ids")
    ELSE [m EXCEPT !.pc = "submit",
                   !.movie_ids = walk.movie_ids,
                   !.before = file,
                   !.next = 1,
                   !.futures = <<>>,
                   !.year_data = <<>>,
                   !.fetches = @ + Len(walk.movie_ids)]

\* One executor.submit(fetch_movie_details, mid) of the dict comprehension;
\* as_completed begins once every id is submitted.
submit(m) ==
    [m EXCEPT !.futures = Append(@, [mid |-> m.movie_ids[m.next],
                                     state |-> "pending",
                                     invoked |-> 0,
                                     outcome |-> NoOutcome,
                                     collected |-> FALSE]),
              !.next = @ + 1,
              !.pc = IF m.next = Len(m.movie_ids) THEN "collect" ELSE "submit"]

\* collect without the try/except around future.result().
collect_unguarded(m, i) ==
    LET result == m.futures[i].outcome
        taken == [m EXCEPT !.futures[i].collected = TRUE]
    IN  IF result.kind = "raise" THEN [taken EXCEPT !.pc = "crashed"]
        ELSE IF result.kind = "None" THEN taken
        ELSE IF result.record.revenue.null
        THEN [taken EXCEPT !.pc = "crashed"]
        ELSE IF result.record.revenue.val > 0
        THEN [taken EXCEPT !.year_data = Append(@, result.record)]
        ELSE taken

\* collect keeping every record whose revenue is not negative.
collect_zero_kept(m, i) ==
    LET result == m.futures[i].outcome
        taken == [m EXCEPT !.futures[i].collected = TRUE]
    IN  IF result.kind = "raise" THEN taken
        ELSE IF result.kind = "None" THEN taken
        ELSE IF result.record.revenue.null THEN taken
        ELSE IF result.record.revenue.val >= 0
        THEN [taken EXCEPT !.year_data = Append(@, result.record)]
        ELSE taken

\* One iteration of "for future in as_completed(future_to_id)" on future i:
\* future.result() re-raises the worker's exception, and None > 0 is a
\* TypeError; "except Exception" logs either and the loop goes on.
collect(m, i) ==
    LET result == m.futures[i].outcome
        taken == [m EXCEPT !.futures[i].collected = TRUE]
    IN  IF result.kind = "raise" THEN taken
        ELSE IF result.kind = "None" THEN taken
        ELSE IF result.record.revenue.null THEN taken
        ELSE IF result.record.revenue.val > 0
        THEN [taken EXCEPT !.year_data = Append(@, result.record)]
        ELSE taken

\* pool_joined leaving the with block as soon as one future was handed out.
pool_joined_early(m) == Uncollected(m) # 1..Len(m.futures)

\* as_completed has handed out every future, and the exit of the with block
\* (shutdown(wait=True)) has waited for every worker.
pool_joined(m) == Uncollected(m) = {} /\ Busy(m) = {}

(***************************************************************************)
(* The simulated catalog of a run.  A catalog of a year is the script of   *)
(* each discovery page; the ids of year y are numbered from                *)
(* (y - START_YEAR) * MaxCandidates + 1.                                   *)
(***************************************************************************)
YearIds(y, n) == [i \in 1..n |-> (y - START_YEAR) * MaxCandidates + i]

EmptyPages == [p \in 1..PAGES_PER_YEAR |-> <<Ok(Results(<<>>))>>]

Catalogs(y, room) ==
    {<<AllFail>>, <<<<RateLimited(TextHeader)>>>>, EmptyPages}
    \cup {<<<<Ok(Results(YearIds(y, n)))>>, <<HttpError(404)>>>> :
            n \in 1..(IF room < MaxCandidates THEN room ELSE MaxCandidates)}
    \cup {<<<<Ok(Results(<<YearIds(y, 1)[1], YearIds(y, 1)[1]>>))>>,
            <<Ok(NoResultsKey)>>>> : n \in 2..(IF room < 2 THEN room ELSE 2)}

Revenues == {Missing, Null, Amount(0), Amount(5)}

DetailScripts(mid) ==
    {<<Ok(Detail(mid, r, FALSE, FALSE))>> : r \in Revenues}
    \cup {<<Ok(Detail(mid, Amount(5), FALSE, TRUE))>>,
          <<NetErr, Ok(Detail(mid, Amount(5), FALSE, FALSE))>>,
          <<HttpError(404)>>, <<RateLimited(TextHeader)>>,
          <<Ok(EmptyDict)>>}

(***************************************************************************)
(* Spec: a run of main.  The output file of an earlier run may be there.   *)
(***************************************************************************)
Init ==
    /\ sg = IdleGet
    /\ wk = IdleWalk
    /\ \E f \in {Absent, StaleFile} :
           csv = [file |-> f, fresh |-> ~f.exists, calls |-> <<>>]
    /\ mn = main_enter
    /\ fd = IdleDetail
    /\ cfg \in {Config(e) : e \in BOOLEAN}

\* "if os.path.exists(OUTPUT_FILE): os.remove(OUTPUT_FILE)"
Start ==
    /\ mn.pc = "start"
    /\ csv' = [csv EXCEPT !.file = Absent]
    /\ mn' = [mn EXCEPT !.pc = "discover"]
    /\ UNCHANGED <<sg, wk, fd, cfg>>

Discover ==
    /\ mn.pc = "discover"
    /\ \E cat \in Catalogs(mn.year, MaxFetches - mn.fetches) :
           LET datas == [p \in 1..Len(cat) |-> safe_get(cat[p], TRUE).result]
           IN  /\ wk' = fetch_movie_ids_by_year(datas)
               /\ mn' = after_discovery(mn, wk', csv.file)
    /\ UNCHANGED <<sg, csv, fd, cfg>>

Submit ==
    /\ mn.pc = "submit"
    /\ mn' = submit(mn)
    /\ UNCHANGED <<sg, wk, csv, fd, cfg>>

\* WorkerStart of a pool that starts a thread for every work item.
WorkerStart_unbounded ==
    /\ \E i \in Pending(mn) :
           /\ \A j \in Pending(mn) : i <= j
           /\ mn' = [mn EXCEPT !.futures[i].state = "running",
                               !.futures[i].invoked = @ + 1]
    /\ UNCHANGED <<sg, wk, csv, fd, cfg>>

\* A worker thread of the pool takes the oldest queued work item and calls
\* fetch_movie_details(mid); the pool has at most MAX_WORKERS threads.
WorkerStart ==
    /\ \E i \in Pending(mn) :
           /\ \A j \in Pending(mn) : i <= j
           /\ Cardinality(Running(mn)) < MAX_WORKERS
           /\ mn' = [mn EXCEPT !.futures[i].state = "running",
                               !.futures[i].invoked = @ + 1]
    /\ UNCHANGED <<sg, wk, csv, fd, cfg>>

\* A worker's fetch_movie_details(mid) ends; the future holds its outcome.
WorkerFinish ==
    /\ \E i \in Running(mn) :
           \E script \in DetailScripts(mn.futures[i].mid) :
               LET data == safe_get(script, TRUE).result
               IN  mn' = [mn EXCEPT
                            !.futures[i].state = "done",
                            !.futures[i].outcome =
                                fetch_movie_details(data, NoImage)]
    /\ UNCHANGED <<sg, wk, csv, fd, cfg>>

Collect ==
    /\ mn.pc = "collect"
    /\ \E i \in Uncollected(mn) :
           /\ mn.futures[i].state = "done"
           /\ mn' = collect(mn, i)
    /\ UNCHANGED <<sg, wk, csv, fd, cfg>>

PoolExit ==
    /\ mn.pc = "collect"
    /\ pool_joined(mn)
    /\ mn' = [mn EXCEPT !.pc = "checkpoint"]
    /\ UNCHANGED <<sg, wk, csv, fd, cfg>>

\* "if year_data: save_to_csv(year_data, OUTPUT_FILE, mode='a')" and the
\* count; time.sleep(1); the next year.
Checkpoint ==
    /\ mn.pc = "checkpoint"
    /\ IF mn.year_data # <<>>
       THEN /\ csv' = [csv EXCEPT
                         !.file = save_to_csv(mn.year_data, csv.file, "a"),
                         !.calls = Append(@, [mode |-> "a",
                                              n |-> Len(mn.year_data),
                                              year |-> mn.year])]
            /\ mn' = next_year([mn EXCEPT !.total_collected =
                                              @ + Len(mn.year_data)], "saved")
       ELSE /\ csv' = csv
            /\ mn' = next_year(mn, "filtered")
    /\ UNCHANGED <<sg, wk, fd, cfg>>

\* The completion summary.
Finish ==
    /\ mn.pc = "finish"
    /\ mn' = [mn EXCEPT !.pc = "done"]
    /\ UNCHANGED <<sg, wk, csv, fd, cfg>>

Next ==
    \/ Start
    \/ Discover
    \/ Submit
    \/ WorkerStart
    \/ WorkerFinish
    \/ Collect
    \/ PoolExit
    \/ Checkpoint
    \/ Finish

Spec == Init /\ [][Next]_vars

(***************************************************************************)
(* Properties of the orchestration, checked under Spec.                    *)
(***************************************************************************)
\* The futures whose detail fetch succeeded with a revenue above 0.
Wanted(m) ==
    {i \in 1..Len(m.futures) :
        /\ m.futures[i].outcome.kind = "record"
        /\ ~m.futures[i].outcome.record.revenue.null
        /\ m.futures[i].outcome.record.revenue.val > 0}

\* batch holds exactly the records of the futures in set S, each as often
\* as S has futures with that record.
HoldsExactly(batch, m, S) ==
    /\ Len(batch) = Cardinality(S)
    /\ \A k \in 1..Len(batch) :
           Cardinality({j \in 1..Len(batch) : batch[j] = batch[k]})
           = Cardinality({i \in S : m.futures[i].outcome.record = batch[k]})

\* C6: in whatever order the workers complete, the batch main has when the
\* pool is left holds exactly the records of the candidates whose detail fetch
\* succeeded with revenue > 0: none with revenue <= 0, none of a failed fetch.
C6_RevenueFilter ==
    mn.pc = "checkpoint" =>
        /\ Len(mn.futures) = Len(mn.movie_ids)
        /\ HoldsExactly(mn.year_data, mn, Wanted(mn))

C6_Witness ==
    /\ mn.pc = "checkpoint"
    /\ Len(mn.futures) = 3
    /\ \E i \in 1..3 : /\ mn.futures[i].outcome.kind = "record"
                       /\ mn.futures[i].outcome.record.revenue.val = 0
    /\ Len(mn.year_data) = 2
    /\ mn.year_data[1].id > mn.year_data[2].id

\* C7: main leaves the pool only when every submitted candidate was fetched
\* to the end and its result collected, also when a sibling raised or
\* returned None; and no item's failure ends the run: main stops early only
\* on an exception of the walker.
C7_ItemIsolation ==
    /\ mn.pc = "checkpoint" =>
           /\ Len(mn.futures) = Len(mn.movie_ids)
           /\ \A i \in 1..Len(mn.futures) :
                  mn.futures[i].state = "done" /\ mn.futures[i].collected
    /\ mn.pc = "crashed" => wk.status = "raised"

C7_Witness ==
    /\ mn.pc = "checkpoint"
    /\ \E i, j, k \in 1..Len(mn.futures) :
           /\ mn.futures[i].outcome.kind = "raise"
           /\ mn.futures[j].outcome.kind = "None"
           /\ k > i /\ k > j
           /\ k \in Wanted(mn)
           /\ mn.year_data = <<mn.futures[k].outcome.record>>

\* C9: save_to_csv with an empty batch leaves the destination as it is
\* (absent stays absent), and a year that ended with no candidate ids or with
\* every record filtered out left the file as its discovery found it.
C9_EmptyWorkNoWrite ==
    /\ \A f \in {Absent, EmptyFile, StaleFile, csv.file}, mode \in {"a", "w"} :
           save_to_csv(<<>>, f, mode) = f
    /\ mn.last \in {"no_ids", "filtered"} => csv.file = mn.before

C9_Witness ==
    /\ mn.pc = "finish"
    /\ mn.last = "filtered"
    /\ Len(mn.futures) >= 2
    /\ csv.file.exists
    /\ csv.file = mn.before

\* C10: the file changes only in a step of the main thread (the removal at
\* the start, the checkpoint of a year), and at that step no worker is
\* running or pending and every future was collected.
C10_SingleWriterAfterJoin ==
    [][csv.file' # csv.file =>
          /\ mn.pc \in {"start", "checkpoint"}
          /\ Busy(mn) = {}
          /\ Uncollected(mn) = {}]_vars

C10_Witness ==
    /\ mn.last = "saved"
    /\ mn.pc \in {"discover", "finish"}
    /\ Len(mn.futures) >= 2
    /\ Len(csv.file.rows) >= 3
    /\ Busy(mn) = {}

\* C11: at most MAX_WORKERS calls of fetch_movie_details are in flight at
\* once, and the futures are the ids the walker returned, occurrence by
\* occurrence: one future per occurrence, invoked once when a worker takes
\* it and never again.
C11_BoundedParallelism ==
    /\ Cardinality(Running(mn)) <= MAX_WORKERS
    /\ \A i \in 1..Len(mn.futures) :
           mn.futures[i].invoked
           = (IF mn.futures[i].state = "pending" THEN 0 ELSE 1)
    /\ mn.pc \in {"submit", "collect", "checkpoint"} =>
           /\ Len(mn.futures) <= Len(mn.movie_ids)
           /\ \A i \in 1..Len(mn.futures) :
                  mn.futures[i].mid = mn.movie_ids[i]
    /\ mn.pc \in {"collect", "checkpoint"} =>
           Len(mn.futures) = Len(mn.movie_ids)

C11_Witness ==
    /\ mn.pc = "collect"
    /\ Cardinality(Running(mn)) = MAX_WORKERS
    /\ Pending(mn) # {}

\* The year of the candidate whose record a data row holds.
YearOfRow(row) == START_YEAR + (row.rec.id - 1) \div MaxCandidates

\* C12: the years are taken one after the other in input order: when the
\* discovery of a year starts, no worker of the year before is pending or
\* running and every future was collected; the checkpoint writes are in
\* strictly increasing year order; and in the file the rows of an earlier year
\* precede those of a later year.
C12_SequentialPartitions ==
    /\ mn.pc = "discover" => Busy(mn) = {} /\ Uncollected(mn) = {}
    /\ mn.year \in START_YEAR..(END_YEAR + 1)
    /\ \A i \in 1..Len(csv.calls) :
           /\ csv.calls[i].year < mn.year
           /\ \A j \in 1..(i - 1) : csv.calls[j].year < csv.calls[i].year
    /\ \A i, j \in DataRows(csv.file) :
           i < j => YearOfRow(csv.file.rows[i]) <= YearOfRow(csv.file.rows[j])

C12_Witness ==
    /\ mn.pc = "finish"
    /\ Len(csv.calls) = 2
    /\ csv.calls[1].year = START_YEAR
    /\ csv.calls[2].year = START_YEAR + 1
    /\ \E i, j \in DataRows(csv.file) :
           YearOfRow(csv.file.rows[i]) < YearOfRow(csv.file.rows[j])

(***************************************************************************)
(* SpecDetail: one call of fetch_movie_details, in its two requests: the   *)
(* detail request through safe_get and, when the projection got as far as  *)
(* a poster path, the image request of extract_poster_features.  The frame *)
(* counts the calls of either.                                             *)
(***************************************************************************)
detail_enter(mid) ==
    [pc |-> "request", mid |-> mid, client_calls |-> 0, extract_calls |-> 0,
     data |-> None, img |-> NoImage, outcome |-> NoOutcome]

\* "poster_path = data.get("poster_path"); if poster_path:", which the call
\* reaches when it neither returned None nor raised before.
wants_poster(data) ==
    /\ data.kind = "json"
    /\ ~data.body.empty
    /\ ~data.body.malformed
    /\ data.body.poster_path

\* "data = safe_get(url, params)" and the call up to the poster.
after_request(f, data) ==
    IF wants_poster(data)
    THEN [f EXCEPT !.client_calls = @ + 1, !.data = data, !.pc = "poster"]
    ELSE [f EXCEPT !.client_calls = @ + 1, !.data = data, !.pc = "done",
                   !.outcome = fetch_movie_details(data, NoImage)]

\* "extracted = extract_poster_features(full_url)" and the rest of the call.
after_poster(f, img) ==
    [f EXCEPT !.extract_calls = @ + 1, !.img = img, !.pc = "done",
              !.outcome = fetch_movie_details(f.data, img)]

Image(status, decodes, brightness, saturation, r) ==
    [exc |-> FALSE, status |-> status, decodes |-> decodes,
     brightness |-> brightness, saturation |-> saturation,
     r |-> r, g |-> 1279, b |-> 2550]

Images ==
    {NoImage, Image(404, TRUE, 0, 0, 0), Image(200, FALSE, 0, 0, 0)}
    \cup {Image(200, TRUE, v, 127504, r) : v \in {0, 4, 5, 254996},
                                           r \in {0, 9, 1285}}

DetailResponses(mid) ==
    {<<Ok(Detail(mid, r, p, q))>> : r \in Revenues, p \in BOOLEAN,
                                    q \in BOOLEAN}
    \cup {<<RateLimited(NoHeader), Ok(Detail(mid, Amount(5), TRUE, FALSE))>>,
          <<NetErr, NetErr, Ok(Detail(mid, Amount(0), FALSE, FALSE))>>,
          <<Ok(EmptyDict)>>, <<BadJson>>, AllFail,
          <<RateLimited(TextHeader)>>,
          [i \in 1..max_retries |-> RateLimited(NoHeader)]}
    \cup {<<HttpError(s)>> : s \in ErrorStatuses}

InitDetail ==
    /\ sg = IdleGet
    /\ wk = IdleWalk
    /\ csv = IdleCsv
    /\ mn = IdleMain
    /\ fd \in {detail_enter(mid) : mid \in 1..MaxCandidates}
    /\ cfg = Config(TRUE)

DetailRequest ==
    /\ fd.pc = "request"
    /\ \E script \in DetailResponses(fd.mid), caught \in BOOLEAN :
           /\ sg' = safe_get(script, caught)
           /\ fd' = after_request(fd, sg'.result)
    /\ UNCHANGED <<wk, csv, mn, cfg>>

DetailPoster ==
    /\ fd.pc = "poster"
    /\ \E img \in Images : fd' = after_poster(fd, img)
    /\ UNCHANGED <<sg, wk, csv, mn, cfg>>

NextDetail ==
    \/ DetailRequest
    \/ DetailPoster

SpecDetail == InitDetail /\ [][NextDetail]_vars

(***************************************************************************)
(* Properties of the item detail fetcher, checked under SpecDetail.        *)
(***************************************************************************)
\* C13: fetch_movie_details calls safe_get once; it returns None, without
\* raising, when safe_get returned None; and it returns a record for every
\* detail response that safe_get returned the parsed body of.
C13_AbsentOrRecord ==
    fd.pc = "done" =>
        /\ fd.client_calls = 1
        /\ fd.data = None => fd.outcome = ReturnedNone
        /\ fd.data.kind = "json" => fd.outcome.kind = "record"

PosterFields(rec) ==
    <<rec.poster_brightness, rec.poster_saturation, rec.poster_dom_r,
      rec.poster_dom_g, rec.poster_dom_b>>

OtherFields(rec) == <<rec.id, rec.revenue>>

ExtractionFails(img) == img.exc \/ img.status # 200 \/ ~img.decodes

GoodImage == Image(200, TRUE, 254996, 127504, 1285)

\* C19: extract_poster_features is called at most once, and only for a detail
\* response with a poster path; when the path is missing or the download or
\* the decoding fails, the five poster fields of the record are the
\* missing-value marker, not the number 0; and the other fields of the record
\* are those of the record a successful extraction gives.
C19_PosterIsolation ==
    /\ fd.extract_calls <= 1
    /\ fd.extract_calls = 1 => fd.data.kind = "json" /\ fd.data.body.poster_path
    /\ (fd.pc = "done" /\ fd.outcome.kind = "record") =>
           /\ fd.data.body.poster_path => fd.extract_calls = 1
           /\ (~fd.data.body.poster_path \/ ExtractionFails(fd.img)) =>
                  PosterFields(fd.outcome.record) = <<NaN, NaN, NaN, NaN, NaN>>
           /\ ~ExtractionFails(fd.img) /\ fd.data.body.poster_path =>
                  \A k \in 1..5 : ~PosterFields(fd.outcome.record)[k].nan
           /\ OtherFields(fd.outcome.record)
              = OtherFields(fetch_movie_details(fd.data, GoodImage).record)

C19_Witness ==
    /\ fd.pc = "done"
    /\ fd.outcome.kind = "record"
    /\ fd.data.body.poster_path
    /\ fd.extract_calls = 1
    /\ ~fd.img.exc /\ fd.img.status = 200 /\ ~fd.img.decodes
    /\ fd.outcome.record.poster_brightness = NaN
    /\ fd.outcome.record.revenue.val = 5

(***************************************************************************)
(* Further properties of safe_get, checked under SpecGet.                  *)
(***************************************************************************)
\* C14: safe_get does not raise on a response with an HTTP error status,
\* whatever its headers: after such a response the call goes on or has
\* returned.
C14_NeverRaisesOnHttpStatus ==
    \A i \in 1..Len(sg.resps) :
        (~sg.resps[i].exc /\ sg.resps[i].status # 200) =>
            ~(i = Len(sg.resps) /\ sg.status = "raised")

\* A 429 whose Retry-After gives the sleep a duration: absent or an integer.
TimedRateLimit(resp) ==
    /\ ~resp.exc
    /\ resp.status = 429
    /\ resp.retry_after # TextHeader

RECURSIVE IdsOfPages(_, _)
IdsOfPages(pages, n) ==
    IF n = 0 THEN <<>>
    ELSE IdsOfPages(pages, n - 1) \o pages[n].data.body.results

\* C20: the walker requests pages 1, 2, ... in order without gaps, never more
\* than PAGES_PER_YEAR; and when safe_get returns None for page k it returns
\* the ids of pages 1..k-1 in page order (none when k = 1).
C20_PartialDiscoveryKept ==
    /\ Len(wk.pages) <= PAGES_PER_YEAR
    /\ \A k \in 1..Len(wk.pages) : wk.pages[k].page = k
    /\ \A k \in 1..Len(wk.pages) :
           wk.pages[k].data = None =>
               /\ k = Len(wk.pages)
               /\ wk.status = "returned"
               /\ wk.movie_ids = IdsOfPages(wk.pages, k - 1)

C20_Witness ==
    /\ Len(wk.pages) = 3
    /\ wk.pages[3].data = None
    /\ wk.status = "returned"
    /\ Len(wk.movie_ids) >= 3
    /\ wk.movie_ids[1] = 1

(***************************************************************************)
(* Further properties of the orchestration, checked under Spec.            *)
(***************************************************************************)
\* C15: a process without TMDB_API_KEY in its environment issues no HTTP
\* request: no discovery page is requested and no detail fetch submitted.
C15_NoRequestWithoutCredential ==
    ~cfg.env_set => wk.status = "idle" /\ mn.futures = <<>>

\* C16: no failure ends the run early: main is never left by an exception, and
\* it reaches the completion summary only after the last year.
C16_RunAlwaysProceeds ==
    /\ mn.pc # "crashed"
    /\ mn.pc \in {"finish", "done"} => mn.year = END_YEAR + 1

IsPrefix(a, b) == Len(a) <= Len(b) /\ \A i \in 1..Len(a) : a[i] = b[i]

\* C17: after the removal of the old file at the start of the run, every step
\* leaves the file in place with the rows it had as the first rows of the rows
\* it has after the step.
C17_AppendOnly ==
    [][mn.pc # "start" =>
          /\ csv.file.exists => csv.file'.exists
          /\ IsPrefix(csv.file.rows, csv.file'.rows)]_vars

C17_Witness ==
    /\ mn.last = "saved"
    /\ Len(csv.calls) = 2
    /\ HeaderRows(csv.file) = {1}
    /\ Cardinality(DataRows(csv.file)) >= 3

=============================================================================
